---- MODULE Spec2Model ----
(***************************************************************************)
(* pymt5adapter/core.py: the decorator _context_manager_modified and the   *)
(* forwarding functions it wraps.                                          *)
(*                                                                         *)
(* The external library (_mt5) is the environment: every call of one of    *)
(* its functions returns any value of that function's result set (or, for  *)
(* the copy_* functions, raises SystemError) and leaves any error pair in  *)
(* the terminal.  _mt5.last_error() reads that pair and does not change it.*)
(*                                                                         *)
(* Python values that may be None are sequences: <<>> is None, <<v>> is v. *)
(* Results are records [kind, items].                                      *)
(***************************************************************************)
EXTENDS Integers, Sequences, FiniteSets, TLC

VARIABLES
    force_namedtuple,   \* _state.force_namedtuple
    global_debugging,   \* _state.global_debugging
    raise_on_errors,    \* _state.raise_on_errors
    terminal_error,     \* the pair _mt5.last_error() returns
    log_len,            \* number of entries handed to _state.log so far
    last                \* the last adapter call: what it did and how it ended

vars == <<force_namedtuple, global_debugging, raise_on_errors,
          terminal_error, log_len, last>>

----------------------------------------------------------------------------
(* Bounds *)

MaxRows == 2      \* rows of an array the library returns
MaxItems == 2     \* items of a tuple the library returns
MaxLog == 2       \* log entries after which no further call is explored

----------------------------------------------------------------------------
(* Values *)

None == <<>>
Some(v) == <<v>>

RES_S_OK == 1

ErrPairs == {<<RES_S_OK, "Success">>, <<-1, "Fail">>}

SeqsUpTo(S, n) == UNION {[1..k -> S] : k \in 0..n}

NoneResult == [kind |-> "None", items |-> <<>>]
Value(v) == [kind |-> "value", items |-> <<v>>]

\* A bar: time, open, high, low, close, tick_volume, spread, real_volume.
Bar(t) == <<t, 10 + t, 12 + t, 9 + t, 11 + t, 100 * t, 2, 0>>
\* The arrays of bars, oldest first.
RatesArrays == {[kind |-> "rates", items |-> [i \in 1..n |-> Bar(i)]] : n \in 0..MaxRows}
TicksArrays == {[kind |-> "ticks", items |-> s] : s \in SeqsUpTo({<<1, 10, 11, 0, 2>>}, 1)}

Symbols == {"EURUSD", "USDJPY"}
Tuples == {[kind |-> "tuple", items |-> s] : s \in SeqsUpTo(Symbols, MaxItems)}

Functions == {None, Some({"EURUSD"})}   \* predicates, by the items they accept

----------------------------------------------------------------------------
(* The external library *)

BoolFns == {"initialize", "login", "symbol_select"}
TotalFns == {"symbols_total", "orders_total", "positions_total",
             "history_orders_total", "history_deals_total"}
RatesFns == {"copy_rates_from", "copy_rates_from_pos", "copy_rates_range"}
TicksFns == {"copy_ticks_from", "copy_ticks_range"}
TupleFns == {"symbols_get", "orders_get", "positions_get",
             "history_deals_get", "history_orders_get"}

\* The values a library function may return.
LibReturns(fn) ==
    IF fn = "shutdown" THEN {NoneResult}
    ELSE IF fn \in BoolFns THEN {Value("True"), Value("False")}
    ELSE IF fn \in TotalFns THEN {Value("0"), Value("2")}
    ELSE IF fn \in RatesFns THEN {NoneResult} \cup RatesArrays
    ELSE IF fn \in TicksFns THEN {NoneResult} \cup TicksArrays
    ELSE IF fn = "symbols_get" THEN {NoneResult} \cup Tuples
    ELSE IF fn \in TupleFns THEN {NoneResult} \cup {t \in Tuples : Len(t.items) <= 1}
    ELSE {NoneResult, Value(fn)}

\* The library functions the adapter expects to raise SystemError.
RaisesSystemError == RatesFns \cup TicksFns

\* One call of a library function: every way it may end.
LibCall(fn, args) ==
    {[fn |-> fn, args |-> args, raised |-> FALSE, res |-> r] : r \in LibReturns(fn)}
    \cup (IF fn \in RaisesSystemError
          THEN {[fn |-> fn, args |-> args, raised |-> TRUE, res |-> NoneResult]}
          ELSE {})

----------------------------------------------------------------------------
(* How a function body ends: it returned raw, or raised exc; libcalls are  *)
(* the library calls it made, in order.                                    *)

\* Return with the library called a second time
ReturnTwice(c) ==
    [ret |-> ~c.raised,
     exc |-> IF c.raised THEN "SystemError" ELSE "",
     raw |-> c.res,
     libcalls |-> <<c, c>>]

\* return _mt5.fn(...)
Return(c) ==
    [ret |-> ~c.raised,
     exc |-> IF c.raised THEN "SystemError" ELSE "",
     raw |-> c.res,
     libcalls |-> <<c>>]

\* TrySystemError without the try
NoTry(fr) == fr

\* try: ... except SystemError: return None
TrySystemError(fr) ==
    IF ~fr.ret /\ fr.exc = "SystemError"
    THEN [fr EXCEPT !.ret = TRUE, !.exc = "", !.raw = NoneResult]
    ELSE fr

\* if function: items = tuple(filter(function, items))
FilterBy(function, fr) ==
    IF fr.ret /\ function # None
    THEN IF fr.raw.kind = "None"
         THEN [fr EXCEPT !.ret = FALSE, !.exc = "TypeError"]   \* filter(function, None)
         ELSE [fr EXCEPT !.raw = [kind |-> "tuple",
                                  items |-> SelectSeq(fr.raw.items,
                                                      LAMBDA x : x \in function[1])]]
    ELSE fr

----------------------------------------------------------------------------
(* The decorator *)

IsRatesArray(result) == result.kind = "rates"

Rate(r) ==
    [time |-> r[1], open |-> r[2], high |-> r[3], low |-> r[4], close |-> r[5],
     tick_volume |-> r[6], spread |-> r[7], real_volume |-> r[8]]

\* Normalize with the last row lost
NormalizeDropsLast(result) ==
    IF force_namedtuple
    THEN IF IsRatesArray(result)
         THEN [kind |-> "list",
               items |-> [i \in 1..(Len(result.items) - 1) |-> Rate(result.items[i])]]
         ELSE result
    ELSE result

\* if _state.force_namedtuple: if _is_rates_array(result): result = [Rate(*r) for r in result]
Normalize(result) ==
    IF force_namedtuple
    THEN IF IsRatesArray(result)
         THEN [kind |-> "list",
               items |-> [i \in 1..Len(result.items) |-> Rate(result.items[i])]]
         ELSE result
    ELSE result

\* str(result)[:80]: the text of the result, cut; an array or list shows its first item at most
Str(result) ==
    [kind |-> result.kind,
     items |-> IF Len(result.items) > 1 THEN SubSeq(result.items, 1, 1) ELSE result.items]

Falsy(result) ==
    result.kind = "None" \/ result.items = <<>>
        \/ (result.kind = "value" /\ result.items[1] \in {"False", "0"})

\* Logged with the condition "and not result"
LoggedOnlyFalsy(op, args, result, err) ==
    IF global_debugging /\ Falsy(result)
    THEN <<[call_sig |-> <<op, args>>, last_error |-> err, result |-> Str(result)]>>
    ELSE <<>>

\* if _state.global_debugging: _state.log(f"[{call_sig}][{last_error()}][{str(result)[:80]}]")
Logged(op, args, result, err) ==
    IF global_debugging
    THEN <<[call_sig |-> <<op, args>>, last_error |-> err, result |-> Str(result)]>>
    ELSE <<>>

\* RaisesMT5Error comparing the pair, not its code, with RES_S_OK
RaisesOnAnyPair(err) ==
    IF raise_on_errors THEN err # <<RES_S_OK, "">> ELSE FALSE

\* RaisesMT5Error without the raise_on_errors test
RaisesWithoutFlag(err) == err[1] # RES_S_OK

\* if _state.raise_on_errors: error_code, description = last_error(); if error_code != RES_S_OK
RaisesMT5Error(err) ==
    IF raise_on_errors THEN err[1] # RES_S_OK ELSE FALSE

\* raise MT5Error(error_code, description)
MT5Error(err) == <<err[1], err[2]>>

NoError == <<0, "">>

\* wrapper(*args, **kwargs), for a body that ended as fr with the terminal's error pair at err
wrapper(op, args, fr, err) ==
    IF ~fr.ret
    THEN [outcome |-> fr.exc, value |-> NoneResult, error |-> NoError, logged |-> <<>>]
    ELSE LET result == Normalize(fr.raw)
             logged == Logged(op, args, result, err)
         IN  IF RaisesMT5Error(err)
             THEN [outcome |-> "MT5Error", value |-> NoneResult,
                   error |-> MT5Error(err), logged |-> logged]
             ELSE [outcome |-> "returned", value |-> result,
                   error |-> NoError, logged |-> logged]

\* a function that carries no decorator
undecorated(fr) ==
    [outcome |-> IF fr.ret THEN "returned" ELSE fr.exc,
     value |-> IF fr.ret THEN fr.raw ELSE NoneResult,
     error |-> NoError, logged |-> <<>>]

\* Decorated with the decorator of version forgotten
DecoratedButVersion ==
    {"initialize", "login", "shutdown", "account_info", "terminal_info",
     "symbols_total", "symbols_get", "symbol_info", "symbol_info_tick", "symbol_select",
     "copy_rates_from", "copy_rates_from_pos", "copy_rates_range", "copy_rates",
     "copy_ticks_from", "copy_ticks_range", "orders_total", "orders_get",
     "order_calc_margin", "order_calc_profit", "order_check", "order_send",
     "positions_total", "positions_get", "history_deals_get", "history_orders_total",
     "history_deals_total", "history_orders_get"}

\* The functions defined under @_context_manager_modified.
Decorated ==
    {"initialize", "login", "shutdown", "version", "account_info", "terminal_info",
     "symbols_total", "symbols_get", "symbol_info", "symbol_info_tick", "symbol_select",
     "copy_rates_from", "copy_rates_from_pos", "copy_rates_range", "copy_rates",
     "copy_ticks_from", "copy_ticks_range", "orders_total", "orders_get",
     "order_calc_margin", "order_calc_profit", "order_check", "order_send",
     "positions_total", "positions_get", "history_deals_get", "history_orders_total",
     "history_deals_total", "history_orders_get"}

\* Call with a connection guard: after shutdown, and before any call, every function
\* but initialize is answered with None and the library is not called
CallWhenConnected(op, args, fr, err) ==
    IF last.op \in {"", "shutdown"} /\ op # "initialize"
    THEN /\ last' = [op |-> op, args |-> args, libcalls |-> <<>>,
                     f_returned |-> TRUE, raw |-> NoneResult,
                     outcome |-> "returned", value |-> NoneResult, error |-> NoError,
                     logged |-> <<>>]
         /\ UNCHANGED <<force_namedtuple, global_debugging, raise_on_errors,
                        terminal_error, log_len>>
    ELSE LET w == IF op \in Decorated THEN wrapper(op, args, fr, err) ELSE undecorated(fr)
         IN  /\ last' = [op |-> op, args |-> args, libcalls |-> fr.libcalls,
                         f_returned |-> fr.ret, raw |-> fr.raw,
                         outcome |-> w.outcome, value |-> w.value, error |-> w.error,
                         logged |-> w.logged]
             /\ terminal_error' = err
             /\ log_len' = log_len + Len(w.logged)
             /\ UNCHANGED <<force_namedtuple, global_debugging, raise_on_errors>>

\* A call of the module's function op with args: its body ended as fr and left the
\* terminal's error pair at err.
Call(op, args, fr, err) ==
    LET w == IF op \in Decorated THEN wrapper(op, args, fr, err) ELSE undecorated(fr)
    IN  /\ last' = [op |-> op, args |-> args, libcalls |-> fr.libcalls,
                    f_returned |-> fr.ret, raw |-> fr.raw,
                    outcome |-> w.outcome, value |-> w.value, error |-> w.error,
                    logged |-> w.logged]
        /\ terminal_error' = err
        /\ log_len' = log_len + Len(w.logged)
        /\ UNCHANGED <<force_namedtuple, global_debugging, raise_on_errors>>

----------------------------------------------------------------------------
(* Helpers of pymt5adapter.helpers *)

Truthy(x) == x # None /\ x[1] # ""

\* _clean_args: the keywords whose value is not None
CleanArgs(kw) == SelectSeq(kw, LAMBDA p : p[2] # None)

\* _get_ticket_type_stuff(func, symbol=, group=, ticket=, function=)
GetTicketTypeStuff(fn, symbol, group, ticket, function) ==
    {FilterBy(function, Return(c)) :
        c \in LibCall(fn, CleanArgs(<<<<"symbol", symbol>>, <<"group", group>>,
                                      <<"ticket", ticket>>>>))}

\* _get_history_type_stuff(func, args)
GetHistoryTypeStuff(fn, datetime_from, datetime_to, group, ticket, position, function) ==
    {FilterBy(function, Return(c)) :
        c \in LibCall(fn, CleanArgs(<<<<"datetime_from", datetime_from>>,
                                      <<"datetime_to", datetime_to>>, <<"group", group>>,
                                      <<"ticket", ticket>>, <<"position", position>>>>))}

\* _do_trade_action(func, args)
DoTradeAction(fn, request) == {Return(c) : c \in LibCall(fn, <<request>>)}

----------------------------------------------------------------------------
(* Arguments the calls are explored with *)

SYMBOL == Some("EURUSD")
TIMEFRAME == Some(1)
DateFrom == {None, Some(100)}
DateTo == {None, Some(200)}
StartPos == {None, Some(5)}
Count == {None, Some(10)}
FLAGS == Some(-1)
Groups == {None, Some(""), Some("*USD*")}

----------------------------------------------------------------------------
(* The functions of core.py *)

initialize ==
    /\ log_len < MaxLog
    /\ \E path \in {None, Some("terminal64.exe")}, err \in ErrPairs :
           \E c \in LibCall("initialize",
                            CleanArgs(<<<<"path", path>>, <<"login", None>>,
                                        <<"password", None>>, <<"server", None>>,
                                        <<"portable", Some("False")>>, <<"timeout", None>>>>)) :
               Call("initialize", <<path>>, Return(c), err)

login ==
    /\ log_len < MaxLog
    /\ \E password \in {None, Some("secret")}, err \in ErrPairs :
           \E c \in LibCall("login",
                            <<Some("1234")>> \o CleanArgs(<<<<"password", password>>,
                                                            <<"server", None>>,
                                                            <<"timeout", None>>>>)) :
               Call("login", <<Some("1234"), password>>, Return(c), err)

shutdown ==
    /\ log_len < MaxLog
    /\ \E err \in ErrPairs : \E c \in LibCall("shutdown", <<>>) :
           Call("shutdown", <<>>, Return(c), err)

version ==
    /\ log_len < MaxLog
    /\ \E err \in ErrPairs : \E c \in LibCall("version", <<>>) :
           Call("version", <<>>, Return(c), err)

last_error ==
    /\ UNCHANGED log_len
    /\ Call("last_error", <<>>,
            Return([fn |-> "last_error", args |-> <<>>, raised |-> FALSE,
                    res |-> [kind |-> "error", items |-> <<terminal_error>>]]),
            terminal_error)

account_info ==
    /\ log_len < MaxLog
    /\ \E err \in ErrPairs : \E c \in LibCall("account_info", <<>>) :
           Call("account_info", <<>>, Return(c), err)

terminal_info ==
    /\ log_len < MaxLog
    /\ \E err \in ErrPairs : \E c \in LibCall("terminal_info", <<>>) :
           Call("terminal_info", <<>>, Return(c), err)

symbols_total ==
    /\ log_len < MaxLog
    /\ \E err \in ErrPairs : \E c \in LibCall("symbols_total", <<>>) :
           Call("symbols_total", <<>>, Return(c), err)

\* symbols = _mt5.symbols_get(group=group) if group else _mt5.symbols_get()
symbols_get_args(group) ==
    IF Truthy(group) THEN <<<<"group", group>>>> ELSE <<>>

symbols_get_body(group, function) ==
    {FilterBy(function, Return(c)) : c \in LibCall("symbols_get", symbols_get_args(group))}

symbols_get ==
    /\ log_len < MaxLog
    /\ \E group \in Groups, function \in Functions, err \in ErrPairs :
           \E fr \in symbols_get_body(group, function) :
               Call("symbols_get", <<group, function>>, fr, err)

symbol_info ==
    /\ log_len < MaxLog
    /\ \E err \in ErrPairs : \E c \in LibCall("symbol_info", <<SYMBOL>>) :
           Call("symbol_info", <<SYMBOL>>, Return(c), err)

symbol_info_tick ==
    /\ log_len < MaxLog
    /\ \E err \in ErrPairs : \E c \in LibCall("symbol_info_tick", <<SYMBOL>>) :
           Call("symbol_info_tick", <<SYMBOL>>, Return(c), err)

symbol_select ==
    /\ log_len < MaxLog
    /\ \E enable \in {Some("True"), Some("False")}, err \in ErrPairs :
           \E c \in LibCall("symbol_select", <<SYMBOL, enable>>) :
               Call("symbol_select", <<SYMBOL, enable>>, Return(c), err)

copy_rates_from ==
    /\ log_len < MaxLog
    /\ \E datetime_from \in DateFrom \ {None}, count \in Count \ {None}, err \in ErrPairs :
           \E c \in LibCall("copy_rates_from", <<SYMBOL, TIMEFRAME, datetime_from, count>>) :
               Call("copy_rates_from", <<SYMBOL, TIMEFRAME, datetime_from, count>>,
                    TrySystemError(Return(c)), err)

copy_rates_from_pos ==
    /\ log_len < MaxLog
    /\ \E start_pos \in StartPos \ {None}, count \in Count \ {None}, err \in ErrPairs :
           \E c \in LibCall("copy_rates_from_pos", <<SYMBOL, TIMEFRAME, start_pos, count>>) :
               Call("copy_rates_from_pos", <<SYMBOL, TIMEFRAME, start_pos, count>>,
                    TrySystemError(Return(c)), err)

copy_rates_range ==
    /\ log_len < MaxLog
    /\ \E datetime_from \in DateFrom \ {None}, datetime_to \in DateTo \ {None},
          err \in ErrPairs :
           \E c \in LibCall("copy_rates_range", <<SYMBOL, TIMEFRAME, datetime_from, datetime_to>>) :
               Call("copy_rates_range", <<SYMBOL, TIMEFRAME, datetime_from, datetime_to>>,
                    TrySystemError(Return(c)), err)

\* copy_rates_target with the range test first
copy_rates_target_range_first(symbol, timeframe, datetime_from, datetime_to, start_pos, count) ==
    IF datetime_from # None /\ datetime_to # None
    THEN [fn |-> "copy_rates_range",
          args |-> <<symbol, timeframe, datetime_from, datetime_to>>]
    ELSE IF datetime_from # None /\ count # None
    THEN [fn |-> "copy_rates_from", args |-> <<symbol, timeframe, datetime_from, count>>]
    ELSE IF \A x \in {datetime_from, datetime_to, start_pos, count} : x = None
    THEN [fn |-> "copy_rates_from_pos", args |-> <<symbol, timeframe, Some(3000), Some(0)>>]
    ELSE [fn |-> "copy_rates_from_pos", args |-> <<symbol, timeframe, start_pos, count>>]

\* The library function copy_rates calls, and the positional arguments it passes.
copy_rates_target(symbol, timeframe, datetime_from, datetime_to, start_pos, count) ==
    IF datetime_from # None /\ count # None
    THEN [fn |-> "copy_rates_from", args |-> <<symbol, timeframe, datetime_from, count>>]
    ELSE IF datetime_from # None /\ datetime_to # None
    THEN [fn |-> "copy_rates_range",
          args |-> <<symbol, timeframe, datetime_from, datetime_to>>]
    ELSE IF \A x \in {datetime_from, datetime_to, start_pos, count} : x = None
    THEN [fn |-> "copy_rates_from_pos", args |-> <<symbol, timeframe, Some(3000), Some(0)>>]
    ELSE [fn |-> "copy_rates_from_pos", args |-> <<symbol, timeframe, start_pos, count>>]

copy_rates ==
    /\ log_len < MaxLog
    /\ \E datetime_from \in DateFrom, datetime_to \in DateTo, start_pos \in StartPos,
          count \in Count, err \in ErrPairs :
           LET t == copy_rates_target(SYMBOL, TIMEFRAME, datetime_from, datetime_to,
                                      start_pos, count)
           IN  \E c \in LibCall(t.fn, t.args) :
                   Call("copy_rates",
                        <<SYMBOL, TIMEFRAME, datetime_from, datetime_to, start_pos, count>>,
                        TrySystemError(Return(c)), err)

copy_ticks_from ==
    /\ log_len < MaxLog
    /\ \E datetime_from \in DateFrom \ {None}, count \in Count \ {None}, err \in ErrPairs :
           \E c \in LibCall("copy_ticks_from", <<SYMBOL, datetime_from, count, FLAGS>>) :
               Call("copy_ticks_from", <<SYMBOL, datetime_from, count, FLAGS>>,
                    TrySystemError(Return(c)), err)

copy_ticks_range ==
    /\ log_len < MaxLog
    /\ \E datetime_from \in DateFrom \ {None}, datetime_to \in DateTo \ {None},
          err \in ErrPairs :
           \E c \in LibCall("copy_ticks_range", <<SYMBOL, datetime_from, datetime_to, FLAGS>>) :
               Call("copy_ticks_range", <<SYMBOL, datetime_from, datetime_to, FLAGS>>,
                    TrySystemError(Return(c)), err)

orders_total ==
    /\ log_len < MaxLog
    /\ \E err \in ErrPairs : \E c \in LibCall("orders_total", <<>>) :
           Call("orders_total", <<>>, Return(c), err)

orders_get ==
    /\ log_len < MaxLog
    /\ \E symbol \in {None, SYMBOL}, function \in Functions, err \in ErrPairs :
           \E fr \in GetTicketTypeStuff("orders_get", symbol, None, None, function) :
               Call("orders_get", <<symbol, function>>, fr, err)

order_calc_margin ==
    /\ log_len < MaxLog
    /\ \E err \in ErrPairs :
           \E c \in LibCall("order_calc_margin", <<Some("BUY"), SYMBOL, Some("0.1"), Some("1.1")>>) :
               Call("order_calc_margin", <<Some("BUY"), SYMBOL, Some("0.1"), Some("1.1")>>,
                    Return(c), err)

order_calc_profit ==
    /\ log_len < MaxLog
    /\ \E err \in ErrPairs :
           \E c \in LibCall("order_calc_profit",
                            <<Some("BUY"), SYMBOL, Some("0.1"), Some("1.1"), Some("1.2")>>) :
               Call("order_calc_profit",
                    <<Some("BUY"), SYMBOL, Some("0.1"), Some("1.1"), Some("1.2")>>,
                    Return(c), err)

order_check ==
    /\ log_len < MaxLog
    /\ \E err \in ErrPairs : \E fr \in DoTradeAction("order_check", Some("request")) :
           Call("order_check", <<Some("request")>>, fr, err)

order_send ==
    /\ log_len < MaxLog
    /\ \E err \in ErrPairs : \E fr \in DoTradeAction("order_send", Some("request")) :
           Call("order_send", <<Some("request")>>, fr, err)

positions_total ==
    /\ log_len < MaxLog
    /\ \E err \in ErrPairs : \E c \in LibCall("positions_total", <<>>) :
           Call("positions_total", <<>>, Return(c), err)

positions_get ==
    /\ log_len < MaxLog
    /\ \E symbol \in {None, SYMBOL}, function \in Functions, err \in ErrPairs :
           \E fr \in GetTicketTypeStuff("positions_get", symbol, None, None, function) :
               Call("positions_get", <<symbol, function>>, fr, err)

history_deals_get ==
    /\ log_len < MaxLog
    /\ \E function \in Functions, err \in ErrPairs :
           \E fr \in GetHistoryTypeStuff("history_deals_get", Some(100), Some(200),
                                         None, None, None, function) :
               Call("history_deals_get", <<Some(100), Some(200), function>>, fr, err)

history_orders_total ==
    /\ log_len < MaxLog
    /\ \E err \in ErrPairs : \E c \in LibCall("history_orders_total", <<Some(100), Some(200)>>) :
           Call("history_orders_total", <<Some(100), Some(200)>>, Return(c), err)

history_deals_total ==
    /\ log_len < MaxLog
    /\ \E err \in ErrPairs : \E c \in LibCall("history_deals_total", <<Some(100), Some(200)>>) :
           Call("history_deals_total", <<Some(100), Some(200)>>, Return(c), err)

history_orders_get ==
    /\ log_len < MaxLog
    /\ \E function \in Functions, err \in ErrPairs :
           \E fr \in GetHistoryTypeStuff("history_orders_get", Some(100), Some(200),
                                         None, None, None, function) :
               Call("history_orders_get", <<Some(100), Some(200), function>>, fr, err)

----------------------------------------------------------------------------
(* The system *)

NoCall ==
    [op |-> "", args |-> <<>>, libcalls |-> <<>>, f_returned |-> FALSE,
     raw |-> NoneResult, outcome |-> "", value |-> NoneResult, error |-> NoError,
     logged |-> <<>>]

Init ==
    /\ force_namedtuple \in BOOLEAN
    /\ global_debugging \in BOOLEAN
    /\ raise_on_errors \in BOOLEAN
    /\ terminal_error \in ErrPairs
    /\ log_len = 0
    /\ last = NoCall

Next ==
    \/ initialize \/ login \/ shutdown \/ version \/ last_error
    \/ account_info \/ terminal_info
    \/ symbols_total \/ symbols_get \/ symbol_info \/ symbol_info_tick \/ symbol_select
    \/ copy_rates_from \/ copy_rates_from_pos \/ copy_rates_range \/ copy_rates
    \/ copy_ticks_from \/ copy_ticks_range
    \/ orders_total \/ orders_get \/ order_calc_margin \/ order_calc_profit
    \/ order_check \/ order_send
    \/ positions_total \/ positions_get
    \/ history_deals_get \/ history_orders_total \/ history_deals_total
    \/ history_orders_get

Spec == Init /\ [][Next]_vars

----------------------------------------------------------------------------
(* Properties *)

\* The last call was a call of a decorated function whose body returned.
WrappedReturned == last.op \notin {"", "last_error"} /\ last.f_returned

\* C1: with raise_on_errors enabled, a wrapped call whose function returned raises
\* MT5Error if and only if the code last_error() reports after the call is not
\* RES_S_OK; with RES_S_OK it returns the result, normalized or not; the MT5Error
\* carries exactly the pair last_error() returned.
C1_RaisesIffNotOk ==
    (raise_on_errors /\ WrappedReturned) =>
        /\ (last.outcome = "MT5Error") <=> (terminal_error[1] # RES_S_OK)
        /\ (terminal_error[1] = RES_S_OK) =>
              /\ last.outcome = "returned"
              /\ \/ last.value = last.raw
                 \/ last.raw.kind = "rates" /\ last.value.kind = "list"
        /\ (last.outcome = "MT5Error") => last.error = terminal_error

C1_Witness ==
    /\ raise_on_errors /\ WrappedReturned
    /\ last.outcome = "MT5Error" /\ last.error = <<-1, "Fail">>

\* C2: with force_namedtuple enabled, a wrapped call whose result is a rates array
\* returns a list of Rate records of the same length and order, each built from the
\* fields of its row; with force_namedtuple disabled, or for any other result (None
\* included), the result is returned unchanged.
C2_RatesBecomeRateRecords ==
    (WrappedReturned /\ last.outcome = "returned") =>
        IF force_namedtuple /\ last.raw.kind = "rates"
        THEN /\ last.value.kind = "list"
             /\ Len(last.value.items) = Len(last.raw.items)
             /\ \A i \in 1..Len(last.raw.items) :
                   LET rec == last.value.items[i]
                       row == last.raw.items[i]
                   IN  <<rec.time, rec.open, rec.high, rec.low, rec.close,
                         rec.tick_volume, rec.spread, rec.real_volume>> = row
        ELSE last.value = last.raw

C2_Witness ==
    /\ force_namedtuple /\ WrappedReturned /\ last.outcome = "returned"
    /\ last.raw.kind = "rates" /\ Len(last.raw.items) = 2
    /\ last.value.kind = "list" /\ last.value.items[2].time = 2

\* C3: with global_debugging enabled, every wrapped call whose function returned
\* produces exactly one log entry, written after the call (it shows the error pair the
\* call left) and after normalization (it shows the normalized result) and before the
\* raise_on_errors test (a call that raises MT5Error is logged too); with
\* global_debugging disabled no call produces a log entry.
C3_OneLogEntryPerCall ==
    [][ IF global_debugging
        THEN (last'.op \notin {"", "last_error"} /\ last'.f_returned) =>
                /\ log_len' = log_len + 1
                /\ Len(last'.logged) = 1
                /\ last'.logged[1].call_sig[1] = last'.op
                /\ last'.logged[1].last_error = terminal_error'
                /\ last'.logged[1].result.kind =
                      (IF force_namedtuple /\ last'.raw.kind = "rates"
                       THEN "list" ELSE last'.raw.kind)
        ELSE log_len' = log_len /\ last'.logged = <<>> ]_vars

C3_Witness ==
    /\ global_debugging /\ force_namedtuple /\ WrappedReturned
    /\ last.outcome = "MT5Error" /\ last.raw.kind = "rates"
    /\ Len(last.logged) = 1 /\ last.logged[1].result.kind = "list"
    /\ log_len = 2

\* C4 as stated: every exposed function, last_error included, is wrapped, so a call
\* of any of them is logged under global_debugging and raises MT5Error under
\* raise_on_errors when the terminal's error code is not RES_S_OK.
C4_EveryFunctionWrapped ==
    (last.op # "" /\ last.f_returned) =>
        /\ global_debugging => Len(last.logged) = 1
        /\ (raise_on_errors /\ terminal_error[1] # RES_S_OK) => last.outcome = "MT5Error"

\* C4 amended: every exposed function other than last_error is wrapped (its calls are
\* logged, translated and normalized as the flags say); last_error is not: its call
\* logs nothing, never raises MT5Error and returns the terminal's pair as it is.
C4_EveryFunctionButLastErrorWrapped ==
    /\ (last.op \notin {"", "last_error"} /\ last.f_returned) =>
          /\ global_debugging => Len(last.logged) = 1
          /\ (raise_on_errors /\ terminal_error[1] # RES_S_OK) =>
                last.outcome = "MT5Error"
          /\ (force_namedtuple /\ last.raw.kind = "rates" /\ last.outcome = "returned") =>
                last.value.kind = "list"
    /\ (last.op = "last_error") =>
          /\ last.logged = <<>>
          /\ last.outcome = "returned"
          /\ last.value = [kind |-> "error", items |-> <<terminal_error>>]

C4_Witness ==
    /\ last.op = "version" /\ global_debugging /\ raise_on_errors
    /\ last.outcome = "MT5Error" /\ Len(last.logged) = 1

\* C5: every call of an adapter function calls exactly one library function exactly
\* once (the decorator's last_error reads apart): copy_rates one of copy_rates_from,
\* copy_rates_range and copy_rates_from_pos, symbols_get the library's symbols_get
\* with or without group and predicate, every other function its namesake; and what
\* the function body returns is that call's reply (filtered when a predicate is
\* given, None when it raised SystemError), never an earlier one.
C5_OneLibraryCallPerCall ==
    (last.op # "") =>
        /\ Len(last.libcalls) = 1
        /\ IF last.op = "copy_rates"
           THEN last.libcalls[1].fn \in RatesFns
           ELSE last.libcalls[1].fn = last.op
        /\ last.f_returned =>
              \/ last.raw = last.libcalls[1].res
              \/ /\ last.op \in TupleFns
                 /\ last.args[Len(last.args)] # None
                 /\ last.libcalls[1].res.kind = "tuple"
                 /\ last.raw.kind = "tuple"

C5_Witness ==
    /\ last.op = "symbols_get" /\ last.args = <<Some("*USD*"), Some({"EURUSD"})>>
    /\ Len(last.libcalls) = 1 /\ last.libcalls[1].fn = "symbols_get"
    /\ last.libcalls[1].res.items = <<"USDJPY", "EURUSD">>
    /\ last.raw.items = <<"EURUSD">>

\* C6: copy_rates calls copy_rates_from(symbol, timeframe, datetime_from, count) when
\* datetime_from and count are both supplied, whatever else is supplied; otherwise
\* copy_rates_range(symbol, timeframe, datetime_from, datetime_to) when datetime_from
\* and datetime_to are both supplied; otherwise copy_rates_from_pos.
C6_CopyRatesPrecedence ==
    (last.op = "copy_rates") =>
        LET symbol == last.args[1]
            timeframe == last.args[2]
            datetime_from == last.args[3]
            datetime_to == last.args[4]
            count == last.args[6]
            c == last.libcalls[1]
        IN  IF datetime_from # None /\ count # None
            THEN /\ c.fn = "copy_rates_from"
                 /\ c.args = <<symbol, timeframe, datetime_from, count>>
            ELSE IF datetime_from # None /\ datetime_to # None
            THEN /\ c.fn = "copy_rates_range"
                 /\ c.args = <<symbol, timeframe, datetime_from, datetime_to>>
            ELSE c.fn = "copy_rates_from_pos"

C6_Witness ==
    /\ last.op = "copy_rates"
    /\ last.args = <<SYMBOL, TIMEFRAME, Some(100), Some(200), Some(5), Some(10)>>
    /\ last.libcalls[1].fn = "copy_rates_from"
    /\ last.libcalls[1].args = <<SYMBOL, TIMEFRAME, Some(100), Some(10)>>

\* C7: in copy_rates_from, copy_rates_from_pos, copy_rates_range, copy_rates,
\* copy_ticks_from and copy_ticks_range a SystemError of the library call never
\* reaches the caller: the function's result is None, and the decorator logs that
\* None and applies raise_on_errors to it, so with raise_on_errors the call returns
\* None when last_error reports RES_S_OK and raises MT5Error otherwise.
C7_SystemErrorBecomesNone ==
    (last.op # "" /\ last.libcalls[1].raised) =>
        /\ last.op \in RatesFns \cup TicksFns \cup {"copy_rates"}
        /\ last.f_returned /\ last.raw = NoneResult
        /\ last.outcome \in {"returned", "MT5Error"}
        /\ global_debugging =>
              Len(last.logged) = 1 /\ last.logged[1].result.kind = "None"
        /\ IF raise_on_errors /\ terminal_error[1] # RES_S_OK
           THEN last.outcome = "MT5Error" /\ last.error = terminal_error
           ELSE last.outcome = "returned" /\ last.value = NoneResult

C7_Witness ==
    /\ last.op = "copy_ticks_range" /\ last.libcalls[1].raised
    /\ raise_on_errors /\ global_debugging /\ terminal_error[1] = RES_S_OK
    /\ last.outcome = "returned" /\ last.value = NoneResult /\ Len(last.logged) = 1

\* C8: symbols_get with a predicate returns a tuple of exactly the symbols of the
\* library's result the predicate accepts, in their order, none lost or repeated;
\* without a predicate it returns the library's result unchanged; group goes to the
\* library only when it is truthy, and no group argument otherwise.
C8_SymbolsGetFilters ==
    (last.op = "symbols_get") =>
        LET group == last.args[1]
            function == last.args[2]
            c == last.libcalls[1]
        IN  /\ c.args = (IF group \in {None, Some("")} THEN <<>> ELSE <<<<"group", group>>>>)
            /\ last.f_returned
            /\ IF function # None
               THEN /\ last.raw.kind = "tuple"
                    /\ last.raw.items = SelectSeq(c.res.items, LAMBDA x : x \in function[1])
               ELSE last.raw = c.res

C10_CopyRatesPassesNoNone ==
    (last.op = "copy_rates") =>
        \A i \in 1..Len(last.libcalls[1].args) : last.libcalls[1].args[i] # None

\* C11: when none of datetime_from, datetime_to, start_pos and count is supplied,
\* copy_rates calls copy_rates_from_pos(symbol, timeframe, start_pos, count) with a
\* count greater than zero and with the default starting bar, bar 0, as start_pos.
C11_DefaultRequestsBars ==
    (last.op = "copy_rates"
        /\ \A i \in 3..6 : last.args[i] = None) =>
        LET c == last.libcalls[1]
        IN  /\ c.fn = "copy_rates_from_pos"
            /\ c.args[1] = last.args[1] /\ c.args[2] = last.args[2]
            /\ c.args[3] = Some(0)
            /\ c.args[4] # None /\ c.args[4][1] > 0

\* The library function a call of op is forwarded to.
Forwarded(call) ==
    /\ Len(call.libcalls) = 1
    /\ IF call.op = "copy_rates"
       THEN call.libcalls[1].fn \in RatesFns
       ELSE call.libcalls[1].fn = call.op

\* C12: the adapter keeps no connection lifecycle: whatever was called before (nothing
\* yet, initialize, login, shutdown or anything else), the next call of any function is
\* forwarded to the library, never refused, skipped or answered by the adapter itself;
\* and no call, initialize and shutdown included, changes the adapter's own state (the
\* three flags; the log grows only by the entry of a logged call).
C12_NoLifecycle ==
    [][ /\ Forwarded(last')
        /\ last'.outcome \in {"returned", "MT5Error", "TypeError"}
        /\ UNCHANGED <<force_namedtuple, global_debugging, raise_on_errors>>
        /\ log_len' = log_len + Len(last'.logged)
        /\ (last'.op \in {"initialize", "login", "shutdown"} /\ ~global_debugging) =>
              UNCHANGED log_len
        /\ (last.op \in {"", "shutdown"}) =>
              (last'.f_returned => last'.raw = last'.libcalls[1].res
                                      \/ last'.raw.kind = "tuple") ]_vars

\* shutdown has been called, was forwarded, and every function can still be called
C12_Witness ==
    /\ last.op = "shutdown" /\ Forwarded(last) /\ last.outcome = "returned"
    /\ ENABLED account_info /\ ENABLED copy_rates /\ ENABLED shutdown
    /\ ENABLED symbols_get /\ ENABLED order_send /\ ENABLED last_error

====
